---- MODULE Spec2Model ----
(***************************************************************************)
(* A model of the upload service of src/app.py: the in-memory rate         *)
(* limiter, the first-row validator, the CSV aggregator, and the upload    *)
(* handler with its calls to the GitHub contents API (the blob store).     *)
(*                                                                         *)
(* Time is counted in ticks of half a second, so that two instants of the  *)
(* same second, and elapsed times that are not whole seconds, exist.       *)
(* Numbers read from CSV cells are kept in hundredths.                     *)
(***************************************************************************)
EXTENDS Integers, Sequences, FiniteSets, TLC

VARIABLES
    now,               \* datetime.utcnow(), in ticks
    ticks,             \* how many times the clock has advanced
    faults,            \* how many store calls have failed so far
    env,               \* os.getenv: which of the two settings are present
    rate_limit_store,  \* IP -> time of the last accepted submission
    repo,              \* the GitHub repository: path -> content
    pc,                \* where each request is in upload_file
    loc,               \* each request's local variables
    resp,              \* each request's response (status, body)
    calls,             \* the store calls each request has issued
    agg_in,            \* aggregate_submissions: the argument (csv_files)
    agg_out,           \* aggregate_submissions: the value returned
    val_in,            \* validate_submission_data: the argument (data)
    val_out,           \* validate_submission_data: the value returned
    name_in,           \* file.filename of an upload whose path is computed
    path_out,          \* the target_path computed for it
    history            \* what earlier runs of update_aggregated_data left

vars == <<now, ticks, faults, env, rate_limit_store, repo, pc, loc, resp,
          calls, agg_in, agg_out,
                   val_in, val_out, name_in, path_out, history>>

----------------------------------------------------------------------------
(* Bounds of the model *)

\* the clock advances at most MaxTicks times
MaxTicks == 2
\* at most MaxFaults calls to the store fail (error status or exception)
MaxFaults == 1
\* aggregate_submissions is tried on lists of at most MaxFiles files
MaxFiles == 3

\* the requests in flight, and the client addresses they come from
Requests == {1, 2}
IPs == {"10.0.0.1", "10.0.0.2"}

----------------------------------------------------------------------------
(* Time *)

TicksPerSecond == 2
rate_limit_hours == 24
\* timedelta(hours=rate_limit_hours)
required_wait == rate_limit_hours * 3600 * TicksPerSecond
\* the steps the clock takes: half a second, or half a second short of 24 h
ClockSteps == {1, required_wait - 1}

----------------------------------------------------------------------------
(* Python values *)

None == "<None>"

Num(x) == [k |-> "num", x |-> x]
NaN == [k |-> "nan", x |-> 0]
Raise(e) == [k |-> e, x |-> 0]

\* The decimal strings the model uses, in hundredths.
Decimal ==
    ("0" :> 0) @@ ("1" :> 100) @@ ("2" :> 200) @@ ("5" :> 500) @@ ("7" :> 700)
    @@ ("9" :> 900) @@ ("24" :> 2400) @@ ("24.01" :> 2401) @@ ("25" :> 2500)
    @@ ("50" :> 5000) @@ ("50.01" :> 5001) @@ ("-0.01" :> -1) @@ ("-1" :> -100)

\* float(v) for v a str or None; the numbers 0 and -1 that .get defaults to
\* are written "0" and "-1", float() of which is the same
float(v) ==
    IF v = None THEN Raise("TypeError")
    ELSE IF v \in DOMAIN Decimal THEN Num(Decimal[v])
    ELSE IF v = "nan" THEN NaN
    ELSE Raise("ValueError")

\* dict.get(key, default)
Get(d, key, default) == IF key \in DOMAIN d THEN d[key] ELSE default

Range(s) == {s[i] : i \in DOMAIN s}

RECURSIVE Concat(_)
Concat(ss) == IF ss = <<>> THEN <<>> ELSE Head(ss) \o Concat(Tail(ss))

----------------------------------------------------------------------------
(* CSV *)

\* A file is its bytes: whether they decode as UTF-8, the header line and the
\* data lines, each line a sequence of cells.
CsvFile(header, lines) == [utf8 |-> TRUE, header |-> header, lines |-> lines]
NotUtf8 == [utf8 |-> FALSE, header |-> <<>>, lines |-> <<>>]

IndexOf(s, x) == CHOOSE i \in DOMAIN s : s[i] = x

\* One row of csv.DictReader: the header's fields to the line's cells, None
\* (restval) for the cells a short line lacks.
DictRow(header, line) ==
    [f \in Range(header) |->
        IF IndexOf(header, f) <= Len(line) THEN line[IndexOf(header, f)] ELSE None]

\* list(csv.DictReader(StringIO(content))): empty lines are skipped
DictReader(content) ==
    LET keep == SelectSeq(content.lines, LAMBDA l : l # <<>>)
    IN  [i \in DOMAIN keep |-> DictRow(content.header, keep[i])]

----------------------------------------------------------------------------
(* validate_submission_data *)

valid_ship_types == {"Tanker", "Bulk", "Container", "Gas", "Other"}
valid_regions == {"Global", "Europe", "Middle East", "Asia", "Africa", "Americas"}
valid_called == {"Yes", "No"}
valid_intensity == {"Low", "Medium", "High"}

Verdict(valid, msg) == [valid |-> valid, error |-> msg]

\* The checks in the order of the code; a float() that raises is caught and
\* reported as an invalid data format.  A comparison with NaN is false.
validate_submission_data(data) ==
    LET sleep_hours == float(Get(data, "sleep_hours", "-1"))
        rest_violations == float(Get(data, "rest_violations", "-1"))
        Outside(v, lo, hi) == v.k = "num" /\ (v.x < lo * 100 \/ v.x > hi * 100)
        Raises(v) == v.k \in {"ValueError", "TypeError"}
    IN  IF Raises(sleep_hours) THEN Verdict(FALSE, "Invalid data format")
        ELSE IF Outside(sleep_hours, 0, 24)
            THEN Verdict(FALSE, "Sleep hours must be between 0 and 24")
        ELSE IF Raises(rest_violations) THEN Verdict(FALSE, "Invalid data format")
        ELSE IF Outside(rest_violations, 0, 50)
            THEN Verdict(FALSE, "Rest violations must be between 0 and 50")
        ELSE IF Get(data, "ship_type", "") \notin valid_ship_types
            THEN Verdict(FALSE, "Invalid ship type")
        ELSE IF Get(data, "region", "") \notin valid_regions
            THEN Verdict(FALSE, "Invalid region")
        ELSE IF Get(data, "called_during_rest", "") \notin valid_called
            THEN Verdict(FALSE, "Called during rest must be 'Yes' or 'No'")
        ELSE IF Get(data, "port_intensity", "") \notin valid_intensity
            THEN Verdict(FALSE, "Invalid port intensity")
        ELSE Verdict(TRUE, "")

----------------------------------------------------------------------------
(* aggregate_submissions *)

Returned(v) == [raised |-> "", value |-> v]
Raised(e) == [raised |-> e, value |-> <<>>]

\* sum(float(s.get(field, 0)) for s in submissions): the first float() that
\* raises ends the sum; a NaN makes the sum NaN.
RECURSIVE SumFloat(_, _)
SumFloat(submissions, field) ==
    IF submissions = <<>> THEN Num(0)
    ELSE LET v == float(Get(Head(submissions), field, "0"))
             rest == SumFloat(Tail(submissions), field)
         IN  IF v.k \notin {"num", "nan"} THEN v
             ELSE IF rest.k \notin {"num", "nan"} THEN rest
             ELSE IF v.k = "nan" \/ rest.k = "nan" THEN NaN
             ELSE Num(v.x + rest.x)

\* a / n: the quotient kept exact until it is rounded
TrueDiv(a, n) ==
    IF n = 0 THEN Raise("ZeroDivisionError")
    ELSE IF a.k = "nan" THEN NaN
    ELSE [k |-> "ratio", x |-> a.x, d |-> n]

\* round(q, 2): to the nearest hundredth, a tie to the even one
round2(q) ==
    IF q.k # "ratio" THEN q
    ELSE LET f == (2 * q.x + q.d) \div (2 * q.d)
             tie == (2 * q.x + q.d) % (2 * q.d) = 0
         IN  Num(IF tie /\ f % 2 = 1 THEN f - 1 ELSE f)

\* the defaultdict(int) counts of s.get(field, 'Unknown')
GroupCount(submissions, field) ==
    LET key(i) == Get(submissions[i], field, "Unknown")
    IN  [g \in {key(i) : i \in DOMAIN submissions} |->
            Cardinality({i \in DOMAIN submissions : key(i) = g})]

EmptyMap == [g \in {} |-> 0]

Snapshot(total, avg_sleep, avg_violations, by_ship, by_region, t) ==
    [totals |-> [submissions |-> total],
     averages |-> [sleepHours |-> avg_sleep, restViolations |-> avg_violations],
     byShip |-> by_ship, byRegion |-> by_region, updatedAt |-> t]

\* a mutant of all_rows: only the first data row of every file is taken
first_rows(csv_files) ==
    Concat([i \in DOMAIN csv_files |->
                LET rows == DictReader(csv_files[i][2])
                IN  IF Len(rows) = 0 THEN <<>> ELSE <<rows[1]>>])

\* lines 142-151: the rows of all the files, in the order of the files
all_rows(csv_files) ==
    Concat([i \in DOMAIN csv_files |-> DictReader(csv_files[i][2])])

\* lines 167-168: sum / total if total > 0 else 0
guarded_average(sum, total) == IF total > 0 THEN TrueDiv(sum, total) ELSE Num(0)

\* lines 163-191: the snapshot of a list of rows
metrics(submissions, t) ==
    LET total_submissions == Len(submissions)
        total_sleep == SumFloat(submissions, "sleep_hours")
        total_violations == SumFloat(submissions, "rest_violations")
        avg_sleep == guarded_average(total_sleep, total_submissions)
        avg_violations == guarded_average(total_violations, total_submissions)
    IN  IF total_sleep.k \notin {"num", "nan"} THEN Raised(total_sleep.k)
        ELSE IF total_violations.k \notin {"num", "nan"}
            THEN Raised(total_violations.k)
        ELSE IF avg_sleep.k = "ZeroDivisionError" THEN Raised(avg_sleep.k)
        ELSE IF avg_violations.k = "ZeroDivisionError"
            THEN Raised(avg_violations.k)
        ELSE Returned(Snapshot(total_submissions, round2(avg_sleep),
                               round2(avg_violations),
                               GroupCount(submissions, "ship_type"),
                               GroupCount(submissions, "region"), t))

\* a mutant of aggregate_submissions: no early return for an empty list, and
\* the sums divided by the total whatever it is
aggregate_unguarded(csv_files, t) ==
    LET submissions == all_rows(csv_files)
        total_sleep == SumFloat(submissions, "sleep_hours")
    IN  IF TrueDiv(total_sleep, Len(submissions)).k = "ZeroDivisionError"
            THEN Raised("ZeroDivisionError")
        ELSE metrics(submissions, t)

\* csv_files is a list of (filename, content); t is utcnow() at the return.
aggregate_submissions(csv_files, t) ==
    LET submissions == all_rows(csv_files)
    IN  IF submissions = <<>>
            THEN Returned(Snapshot(0, Num(0), Num(0), EmptyMap, EmptyMap, t))
        ELSE metrics(submissions, t)

----------------------------------------------------------------------------
(* File names and paths *)

\* a mutant of ReplaceDotDot: only the first occurrence is replaced
ReplaceDotDot_first(s) ==
    LET hits == {i \in 1..(Len(s) - 1) : s[i] = "." /\ s[i + 1] = "."}
    IN  IF hits = {} THEN s
        ELSE LET i == CHOOSE i \in hits : \A j \in hits : i <= j
             IN  SubSeq(s, 1, i - 1) \o <<"_">> \o SubSeq(s, i + 2, Len(s))

\* str.replace("..", "_"): left to right, occurrences that do not overlap
RECURSIVE ReplaceDotDot(_)
ReplaceDotDot(s) ==
    IF Len(s) >= 2 /\ s[1] = "." /\ s[2] = "."
        THEN <<"_">> \o ReplaceDotDot(SubSeq(s, 3, Len(s)))
    ELSE IF s = <<>> THEN <<>>
    ELSE <<s[1]>> \o ReplaceDotDot(Tail(s))

\* str.endswith
EndsWith(s, suffix) ==
    /\ Len(s) >= Len(suffix)
    /\ SubSeq(s, Len(s) - Len(suffix) + 1, Len(s)) = suffix

dot_csv == <<".", "c", "s", "v">>

\* "submissions/{timestamp}_{safe_filename}": the timestamp has whole seconds
SubmissionPath(t, safe_filename) ==
    [dir |-> "submissions", ts |-> t \div TicksPerSecond, name |-> safe_filename]
DataJsonPath == [dir |-> "data", ts |-> 0, name |-> <<"data.json">>]
\* no path computed yet
NoPath == [dir |-> "", ts |-> 0, name |-> <<>>]

----------------------------------------------------------------------------
(* The inputs of the model *)

Header6 == <<"sleep_hours", "rest_violations", "ship_type", "region",
             "called_during_rest", "port_intensity">>

Line5 == <<"5", "0", "Tanker", "Asia", "Yes", "Low">>
Line7 == <<"7", "1", "Tanker", "Asia", "No", "Medium">>
Line9 == <<"9", "2", "Bulk", "Europe", "No", "High">>
LineAbc == <<"abc", "1", "Gas", "Africa", "No", "Low">>
Line25 == <<"25", "0", "Tanker", "Asia", "Yes", "Low">>

File5 == CsvFile(Header6, <<Line5>>)
File7 == CsvFile(Header6, <<Line7>>)
File9 == CsvFile(Header6, <<Line9>>)
\* two rows, both valid
File59 == CsvFile(Header6, <<Line5, Line9>>)
\* a valid first row, then a row whose sleep_hours is no number
File7Abc == CsvFile(Header6, <<Line7, LineAbc>>)
\* a valid first row, then a line that stops after its first cell
File5Short == CsvFile(Header6, <<Line5, <<"9">> >>)
\* a first row whose sleep_hours is out of range
File25 == CsvFile(Header6, <<Line25>>)
\* a first row whose sleep_hours is out of range, then a valid row
File25Then5 == CsvFile(Header6, <<Line25, Line5>>)
\* a header and nothing else; a header and an empty line
FileNoRows == CsvFile(Header6, <<>>)
FileBlank == CsvFile(Header6, << <<>> >>)
\* a file without the rest_violations and region columns
FileLegacy == CsvFile(<<"sleep_hours", "ship_type">>, <<<<"7", "Bulk">>>>)

\* what a client uploads
UploadContents == {File5, File7Abc, File25, File25Then5, FileNoRows, NotUtf8}
UploadNames == {<<"a">> \o dot_csv, <<"b">> \o dot_csv, <<>>}
HoneypotValues == {"", "http://spam"}

\* what aggregate_submissions is tried on
AggContents == {File5, File7, File9, File59, File7Abc, File5Short, FileNoRows,
                FileBlank, FileLegacy}

SeqsUpTo(S, n) == UNION {[1..m -> S] : m \in 0..n}

\* the repository before the first request: empty, or one earlier submission,
\* a file of submissions/ that is no .csv, and the data.json computed then
OldPath == [dir |-> "submissions", ts |-> -1, name |-> <<"o">> \o dot_csv]
ReadmePath == [dir |-> "submissions", ts |-> -2, name |-> <<"R", "E", "A", "D", "M", "E">>]
InitialRepos ==
    { [p \in {} |-> <<>>],
      (OldPath :> File7) @@ (ReadmePath :> FileNoRows) @@
      (DataJsonPath :> aggregate_submissions(<<<<OldPath.name, File7>>>>, -1).value) }

----------------------------------------------------------------------------
(* check_rate_limit *)

\* a mutant of RateLimited: a call exactly 24 hours later is still turned away
RateLimited_inclusive(store, ip_address, t) ==
    /\ ip_address \in DOMAIN store
    /\ t - store[ip_address] <= required_wait

\* line 30-35: the address has an entry less than 24 hours old
RateLimited(store, ip_address, t) ==
    /\ ip_address \in DOMAIN store
    /\ t - store[ip_address] < required_wait

\* line 36: int((required_wait - time_diff).total_seconds())
wait_seconds(store, ip_address, t) ==
    (required_wait - (t - store[ip_address])) \div TicksPerSecond

\* line 40: rate_limit_store[ip_address] = now
Recorded(store, ip_address, t) ==
    [i \in DOMAIN store \cup {ip_address} |->
        IF i = ip_address THEN t ELSE store[i]]

----------------------------------------------------------------------------
(* The repository behind the GitHub contents API *)

\* a call to the store answers 200/201, answers an error status, or raises
Outcomes == {"ok", "status", "raise"}

\* the blob sha GitHub reports for a file: a hash of its content
Sha(content) == <<"sha", content>>
NoSha == <<>>

Configured == env.GITHUB_TOKEN /\ env.REPO_FULL_NAME

\* commit_to_github, lines 219-222: sha stays None unless the GET answers 200
GetSha(files, path, outcome) ==
    IF outcome = "ok" /\ path \in DOMAIN files THEN Sha(files[path]) ELSE NoSha

\* lines 234-235: GitHub creates a file that is not there when no sha is sent,
\* and updates a file that is there when the sha sent is that of its content
PutAccepted(files, path, sha, outcome) ==
    /\ outcome = "ok"
    /\ IF path \in DOMAIN files THEN sha = Sha(files[path]) ELSE sha = NoSha

Written(files, path, content) ==
    [p \in DOMAIN files \cup {path} |-> IF p = path THEN content ELSE files[p]]

\* The paths a listing of submissions/ returns, by name: the names begin with
\* the timestamp; files of the same second come in some fixed order.
RECURSIVE InOrder(_)
InOrder(paths) ==
    IF paths = {} THEN <<>>
    ELSE LET first == CHOOSE p \in paths : \A q \in paths : p.ts <= q.ts
         IN  <<first>> \o InOrder(paths \ {first})

\* get_csv_files_from_github, lines 117-121: the entries that end in .csv
ListedCsv(files) ==
    InOrder({p \in DOMAIN files : p.dir = "submissions" /\ EndsWith(p.name, dot_csv)})

----------------------------------------------------------------------------
(* upload_file: the state *)

NoLoc ==
    [ip_address |-> "", t |-> 0, allowed |-> FALSE, wait_time |-> 0,
     content |-> <<>>, target_path |-> <<>>, sha |-> NoSha, files |-> <<>>,
     csv_files |-> <<>>, aggregated_data |-> <<>>, updated |-> "not run"]

\* the bodies of the responses
ErrorBody(message) == [error |-> message]
RateLimitBody(w) ==
    [error |-> "Rate limit exceeded. Please wait",
     hours_remaining |-> w \div 3600, minutes_remaining |-> (w % 3600) \div 60]
SuccessBody == [status |-> "success"]
NoResponse == [status |-> 0, body |-> <<>>]
Pending == [raised |-> "pending", value |-> <<>>]

Init ==
    /\ now = 0
    /\ ticks = 0
    /\ faults = 0
    /\ env \in [GITHUB_TOKEN : BOOLEAN, REPO_FULL_NAME : BOOLEAN]
    /\ rate_limit_store = [i \in {} |-> 0]
    /\ repo \in InitialRepos
    /\ pc = [r \in Requests |-> "start"]
    /\ loc = [r \in Requests |-> NoLoc]
    /\ resp = [r \in Requests |-> NoResponse]
    /\ calls = [r \in Requests |-> {}]
    /\ agg_in = <<>>
    /\ agg_out = Pending
    /\ val_in = <<>>
    /\ val_out = Pending
    /\ name_in = <<>>
    /\ path_out = NoPath
    /\ history = <<>>

\* The clock moves on between two requests: a request is served within one
\* instant, so that the time read at line 27 is also that of lines 330 and 190.
Tick ==
    /\ ticks < MaxTicks
    /\ \E r \in Requests : pc[r] = "start"
    /\ \A r \in Requests : pc[r] \in {"start", "done"}
    /\ \E d \in ClockSteps : now' = now + d
    /\ ticks' = ticks + 1
    /\ UNCHANGED <<faults, env, rate_limit_store, repo, pc, loc, resp, calls,
                   agg_in, agg_out,
                   val_in, val_out, name_in, path_out, history>>

\* return jsonify(body), status: the request is over; of its locals l the
\* model keeps what check_rate_limit and update_aggregated_data returned
Respond(r, status, body, l) ==
    /\ pc' = [pc EXCEPT ![r] = "done"]
    /\ resp' = [resp EXCEPT ![r] = [status |-> status, body |-> body]]
    /\ loc' = [loc EXCEPT ![r] =
                [NoLoc EXCEPT !.ip_address = l.ip_address, !.t = l.t,
                              !.allowed = l.allowed, !.wait_time = l.wait_time,
                              !.updated = l.updated]]

\* a call to the store with outcome o: a failure uses up one of MaxFaults
StoreCall(r, what, o) ==
    /\ o # "ok" => faults < MaxFaults
    /\ faults' = IF o = "ok" THEN faults ELSE faults + 1
    /\ calls' = [calls EXCEPT ![r] = @ \cup {what}]

----------------------------------------------------------------------------
(* upload_file: the steps *)

\* lines 281-293 and check_rate_limit lines 27-37: the time is read and the
\* address looked up; a request inside the window is answered 429.  The
\* requests are numbered in the order in which they arrive.
CheckRateLimit(r) ==
    /\ pc[r] = "start"
    /\ \A q \in Requests : q < r => pc[q] # "start"
    /\ \E i \in IPs :
        LET l == [loc[r] EXCEPT !.ip_address = i, !.t = now]
        IN  IF RateLimited(rate_limit_store, i, now)
            THEN LET w == wait_seconds(rate_limit_store, i, now)
                 IN  Respond(r, 429, RateLimitBody(w),
                             [l EXCEPT !.wait_time = w])
            ELSE /\ pc' = [pc EXCEPT ![r] = "record"]
                 /\ loc' = [loc EXCEPT ![r] = l]
                 /\ UNCHANGED resp
    /\ UNCHANGED <<now, ticks, faults, env, rate_limit_store, repo, calls,
                   agg_in, agg_out,
                   val_in, val_out, name_in, path_out, history>>

\* a mutant of RecordSubmission: the request goes on without its time being
\* stored (the slot would be taken only once the submission is accepted)
RecordSubmission_deferred(r) ==
    /\ pc[r] = "record"
    /\ loc' = [loc EXCEPT ![r].allowed = TRUE]
    /\ pc' = [pc EXCEPT ![r] = "form"]
    /\ UNCHANGED <<now, ticks, faults, env, rate_limit_store, repo, resp,
                   calls, agg_in, agg_out,
                   val_in, val_out, name_in, path_out, history>>

\* check_rate_limit lines 40-41: the time read at line 27 is stored
RecordSubmission(r) ==
    /\ pc[r] = "record"
    /\ rate_limit_store' =
            Recorded(rate_limit_store, loc[r].ip_address, loc[r].t)
    /\ loc' = [loc EXCEPT ![r].allowed = TRUE]
    /\ pc' = [pc EXCEPT ![r] = "form"]
    /\ UNCHANGED <<now, ticks, faults, env, repo, resp, calls, agg_in, agg_out,
                   val_in, val_out, name_in, path_out, history>>

\* lines 296-327: the answer to a form that is turned away, "" when it passes
FormError(honeypot_value, has_file, filename, content) ==
    IF honeypot_value # "" THEN "Invalid submission."
    ELSE IF ~has_file THEN "No submission file provided."
    ELSE IF filename = <<>> THEN "Empty filename."
    ELSE IF ~content.utf8 THEN "Invalid CSV format"
    ELSE LET rows == DictReader(content)
         IN  IF Len(rows) = 0 THEN "Empty CSV file."
             ELSE validate_submission_data(rows[1]).error

\* a mutant of CheckForm: the file is written to the store first and the
\* form checked afterwards
CheckForm_after_write(r) ==
    /\ pc[r] = "form"
    /\ \E honeypot_value \in HoneypotValues, has_file \in BOOLEAN,
          filename \in UploadNames, content \in UploadContents :
        LET error == FormError(honeypot_value, has_file, filename, content)
            target_path == SubmissionPath(now, ReplaceDotDot(filename))
        IN  IF error # ""
            THEN /\ Respond(r, 400, ErrorBody(error), loc[r])
                 /\ calls' = [calls EXCEPT ![r] = @ \cup {"PUT submission"}]
                 /\ repo' = Written(repo, target_path, content)
            ELSE /\ loc' = [loc EXCEPT ![r].content = content,
                                       ![r].target_path = target_path]
                 /\ pc' = [pc EXCEPT ![r] = "commit_get"]
                 /\ UNCHANGED <<resp, calls, repo>>
    /\ UNCHANGED <<now, ticks, faults, env, rate_limit_store, agg_in, agg_out,
                   val_in, val_out, name_in, path_out, history>>

\* lines 296-333: the honeypot, the file, the CSV and its first row; then the
\* path of the submission
CheckForm(r) ==
    /\ pc[r] = "form"
    /\ \E honeypot_value \in HoneypotValues, has_file \in BOOLEAN,
          filename \in UploadNames, content \in UploadContents :
        LET error == FormError(honeypot_value, has_file, filename, content)
        IN  IF error # ""
            THEN Respond(r, 400, ErrorBody(error), loc[r])
            ELSE /\ loc' = [loc EXCEPT
                        ![r].content = content,
                        ![r].target_path =
                            SubmissionPath(now, ReplaceDotDot(filename))]
                 /\ pc' = [pc EXCEPT ![r] = "commit_get"]
                 /\ UNCHANGED resp
    /\ UNCHANGED <<now, ticks, faults, env, rate_limit_store, repo, calls,
                   agg_in, agg_out,
                   val_in, val_out, name_in, path_out, history>>

\* line 334, commit_to_github lines 205-222: without the settings the commit
\* fails at once; else the GET for the sha of the file at the path
CommitGet(r) ==
    /\ pc[r] = "commit_get"
    /\ IF ~Configured
       THEN /\ Respond(r, 500, ErrorBody("Failed to commit file to GitHub."),
                         loc[r])
            /\ UNCHANGED <<faults, calls>>
       ELSE \E o \in Outcomes :
            /\ StoreCall(r, "GET submission", o)
            /\ IF o = "raise"
               THEN Respond(r, 500, ErrorBody("Internal server error."), loc[r])
               ELSE /\ loc' = [loc EXCEPT
                            ![r].sha = GetSha(repo, loc[r].target_path, o)]
                    /\ pc' = [pc EXCEPT ![r] = "commit_put"]
                    /\ UNCHANGED resp
    /\ UNCHANGED <<now, ticks, env, rate_limit_store, repo, agg_in, agg_out,
                   val_in, val_out, name_in, path_out, history>>

\* a mutant of CommitPut: the answer of the PUT is not looked at, the request
\* goes on to the aggregation whatever it was
CommitPut_unchecked(r) ==
    /\ pc[r] = "commit_put"
    /\ \E o \in Outcomes :
        /\ StoreCall(r, "PUT submission", o)
        /\ IF o = "raise"
           THEN /\ Respond(r, 500, ErrorBody("Internal server error."), loc[r])
                /\ UNCHANGED repo
           ELSE /\ repo' = IF PutAccepted(repo, loc[r].target_path, loc[r].sha, o)
                           THEN Written(repo, loc[r].target_path, loc[r].content)
                           ELSE repo
                /\ loc' = [loc EXCEPT ![r].content = <<>>, ![r].sha = NoSha]
                /\ pc' = [pc EXCEPT ![r] = "list"]
                /\ UNCHANGED resp
    /\ UNCHANGED <<now, ticks, env, rate_limit_store, agg_in, agg_out,
                   val_in, val_out, name_in, path_out, history>>

\* commit_to_github lines 224-239 and upload_file lines 336-345: the PUT of
\* the submission; only a 200/201 lets the request go on
CommitPut(r) ==
    /\ pc[r] = "commit_put"
    /\ \E o \in Outcomes :
        /\ StoreCall(r, "PUT submission", o)
        /\ IF o = "raise"
           THEN /\ Respond(r, 500, ErrorBody("Internal server error."), loc[r])
                /\ UNCHANGED repo
           ELSE IF ~PutAccepted(repo, loc[r].target_path, loc[r].sha, o)
           THEN /\ Respond(r, 500, ErrorBody("Failed to commit file to GitHub."),
                         loc[r])
                /\ UNCHANGED repo
           ELSE /\ repo' = Written(repo, loc[r].target_path, loc[r].content)
                /\ loc' = [loc EXCEPT ![r].content = <<>>, ![r].sha = NoSha]
                /\ pc' = [pc EXCEPT ![r] = "list"]
                /\ UNCHANGED resp
    /\ UNCHANGED <<now, ticks, env, rate_limit_store, agg_in, agg_out,
                   val_in, val_out, name_in, path_out, history>>

\* a mutant of Aggregate: the new snapshot is merged with the published one,
\* its total added to the total data.json holds
Aggregate_merged(r, csv_files) ==
    LET aggregated_data == aggregate_submissions(csv_files, now)
        previous == IF DataJsonPath \in DOMAIN repo
                    THEN repo[DataJsonPath].totals.submissions ELSE 0
    IN  IF aggregated_data.raised # ""
        THEN Respond(r, 200, SuccessBody, [loc[r] EXCEPT !.updated = "False"])
        ELSE /\ loc' = [loc EXCEPT
                    ![r].files = <<>>,
                    ![r].csv_files = csv_files,
                    ![r].aggregated_data =
                        [aggregated_data.value EXCEPT
                            !.totals.submissions = @ + previous]]
             /\ pc' = [pc EXCEPT ![r] = "data_get"]
             /\ UNCHANGED resp

\* update_aggregated_data lines 249-264 once csv_files is known: the snapshot
\* is computed; if that raises, the function returns False and the upload
\* answers 200; else data.json is committed next
Aggregate(r, csv_files) ==
    LET aggregated_data == aggregate_submissions(csv_files, now)
    IN  IF aggregated_data.raised # ""
        THEN Respond(r, 200, SuccessBody, [loc[r] EXCEPT !.updated = "False"])
        ELSE /\ loc' = [loc EXCEPT
                    ![r].files = <<>>,
                    ![r].csv_files = csv_files,
                    ![r].aggregated_data = aggregated_data.value]
             /\ pc' = [pc EXCEPT ![r] = "data_get"]
             /\ UNCHANGED resp

\* a mutant of ListSubmissions: a listing that fails ends the recompute, and
\* data.json is left as it is
ListSubmissions_abort(r) ==
    /\ pc[r] = "list"
    /\ IF ~Configured
       THEN /\ Respond(r, 200, SuccessBody, [loc[r] EXCEPT !.updated = "False"])
            /\ UNCHANGED <<faults, calls>>
       ELSE \E o \in Outcomes :
            /\ StoreCall(r, "LIST", o)
            /\ IF o = "ok" /\ ListedCsv(repo) # <<>>
               THEN /\ loc' = [loc EXCEPT ![r].files = ListedCsv(repo)]
                    /\ pc' = [pc EXCEPT ![r] = "fetch"]
                    /\ UNCHANGED resp
               ELSE IF o = "ok" THEN Aggregate(r, <<>>)
               ELSE Respond(r, 200, SuccessBody,
                            [loc[r] EXCEPT !.updated = "False"])
    /\ UNCHANGED <<now, ticks, env, rate_limit_store, repo, agg_in, agg_out,
                   val_in, val_out, name_in, path_out, history>>

\* line 338, get_csv_files_from_github lines 99-120: the listing of
\* submissions/; an error status or an exception gives the empty list
ListSubmissions(r) ==
    /\ pc[r] = "list"
    /\ IF ~Configured
       THEN /\ Aggregate(r, <<>>)
            /\ UNCHANGED <<faults, calls>>
       ELSE \E o \in Outcomes :
            /\ StoreCall(r, "LIST", o)
            /\ IF o = "ok" /\ ListedCsv(repo) # <<>>
               THEN /\ loc' = [loc EXCEPT ![r].files = ListedCsv(repo)]
                    /\ pc' = [pc EXCEPT ![r] = "fetch"]
                    /\ UNCHANGED resp
               ELSE Aggregate(r, <<>>)
    /\ UNCHANGED <<now, ticks, env, rate_limit_store, repo, agg_in, agg_out,
                   val_in, val_out, name_in, path_out, history>>

\* get_csv_files_from_github lines 120-130: the next file is fetched; an
\* error status skips the file, an exception ends the loop with the empty
\* list; after the last file the snapshot is computed
FetchFile(r) ==
    /\ pc[r] = "fetch"
    /\ \E o \in Outcomes :
        LET file_info == Head(loc[r].files)
            csv_files == IF o = "ok" /\ file_info \in DOMAIN repo
                         THEN Append(loc[r].csv_files,
                                     <<file_info.name, repo[file_info]>>)
                         ELSE loc[r].csv_files
        IN  /\ StoreCall(r, "FETCH", o)
            /\ IF o = "raise" THEN Aggregate(r, <<>>)
               ELSE IF Tail(loc[r].files) = <<>> THEN Aggregate(r, csv_files)
               ELSE /\ loc' = [loc EXCEPT ![r].files = Tail(@),
                                          ![r].csv_files = csv_files]
                    /\ UNCHANGED <<pc, resp>>
    /\ UNCHANGED <<now, ticks, env, rate_limit_store, repo, agg_in, agg_out,
                   val_in, val_out, name_in, path_out, history>>

\* lines 255-259, commit_to_github lines 205-222 for data/data.json: the GET
\* for the current sha; an exception ends update_aggregated_data with False
DataGet(r) ==
    /\ pc[r] = "data_get"
    /\ IF ~Configured
       THEN /\ Respond(r, 200, SuccessBody, [loc[r] EXCEPT !.updated = "False"])
            /\ UNCHANGED <<faults, calls>>
       ELSE \E o \in Outcomes :
            /\ StoreCall(r, "GET data.json", o)
            /\ IF o = "raise"
               THEN Respond(r, 200, SuccessBody,
                            [loc[r] EXCEPT !.updated = "False"])
               ELSE /\ loc' = [loc EXCEPT
                            ![r].sha = GetSha(repo, DataJsonPath, o)]
                    /\ pc' = [pc EXCEPT ![r] = "data_put"]
                    /\ UNCHANGED resp
    /\ UNCHANGED <<now, ticks, env, rate_limit_store, repo, agg_in, agg_out,
                   val_in, val_out, name_in, path_out, history>>

\* a mutant of DataPut: a failed write of data.json fails the upload
DataPut_surfaced(r) ==
    /\ pc[r] = "data_put"
    /\ \E o \in Outcomes :
        /\ StoreCall(r, "PUT data.json", o)
        /\ IF o # "raise" /\ PutAccepted(repo, DataJsonPath, loc[r].sha, o)
           THEN /\ repo' = Written(repo, DataJsonPath, loc[r].aggregated_data)
                /\ Respond(r, 200, SuccessBody,
                           [loc[r] EXCEPT !.updated = "True"])
           ELSE /\ Respond(r, 500, ErrorBody("Internal server error."),
                           [loc[r] EXCEPT !.updated = "False"])
                /\ UNCHANGED repo
    /\ UNCHANGED <<now, ticks, env, rate_limit_store, agg_in, agg_out,
                   val_in, val_out, name_in, path_out, history>>

\* commit_to_github lines 224-239 for data/data.json, lines 261-264 and
\* upload_file line 339: whatever the PUT does, the upload answers 200
DataPut(r) ==
    /\ pc[r] = "data_put"
    /\ \E o \in Outcomes :
        /\ StoreCall(r, "PUT data.json", o)
        /\ IF o # "raise" /\ PutAccepted(repo, DataJsonPath, loc[r].sha, o)
           THEN /\ repo' = Written(repo, DataJsonPath, loc[r].aggregated_data)
                /\ Respond(r, 200, SuccessBody,
                           [loc[r] EXCEPT !.updated = "True"])
           ELSE /\ Respond(r, 200, SuccessBody,
                           [loc[r] EXCEPT !.updated = "False"])
                /\ UNCHANGED repo
    /\ UNCHANGED <<now, ticks, env, rate_limit_store, agg_in, agg_out,
                   val_in, val_out, name_in, path_out, history>>

\* the steps of request r after its rate-limit check has begun
Continue(r) ==
    \/ RecordSubmission(r)
    \/ CheckForm(r)
    \/ CommitGet(r)
    \/ CommitPut(r)
    \/ ListSubmissions(r)
    \/ FetchFile(r)
    \/ DataGet(r)
    \/ DataPut(r)

\* Requests served concurrently, their steps interleaved in any order, all
\* inside one instant of the clock.
Next ==
    \E r \in Requests : CheckRateLimit(r) \/ Continue(r)

Spec == Init /\ [][Next]_vars

\* Requests served one at a time (a request begins when no other is being
\* served), the clock moving between them.
NoneInFlight == \A r \in Requests : pc[r] \in {"start", "done"}

NextSerial ==
    \/ Tick
    \/ \E r \in Requests : (NoneInFlight /\ CheckRateLimit(r)) \/ Continue(r)

SpecSerial == Init /\ [][NextSerial]_vars

----------------------------------------------------------------------------
(* aggregate_submissions on its own: called once on a list of files *)

AggFiles == {<<(<<"f">> \o dot_csv), c>> : c \in AggContents}

InitAgg ==
    /\ now = 0
    /\ ticks = 0
    /\ faults = 0
    /\ env = [GITHUB_TOKEN |-> TRUE, REPO_FULL_NAME |-> TRUE]
    /\ rate_limit_store = [i \in {} |-> 0]
    /\ repo = [p \in {} |-> <<>>]
    /\ pc = [r \in Requests |-> "done"]
    /\ loc = [r \in Requests |-> NoLoc]
    /\ resp = [r \in Requests |-> NoResponse]
    /\ calls = [r \in Requests |-> {}]
    /\ agg_in \in SeqsUpTo(AggFiles, MaxFiles)
    /\ agg_out = Pending
    /\ val_in = <<>>
    /\ val_out = Pending
    /\ name_in = <<>>
    /\ path_out = NoPath
    /\ history = <<>>

AggregateCall ==
    /\ agg_out = Pending
    /\ agg_out' = aggregate_submissions(agg_in, now)
    /\ UNCHANGED <<now, ticks, faults, env, rate_limit_store, repo, pc, loc,
                   resp, calls, agg_in,
                   val_in, val_out, name_in, path_out, history>>

NextAgg == AggregateCall

SpecAgg == InitAgg /\ [][NextAgg]_vars

----------------------------------------------------------------------------
(* Properties of aggregate_submissions (SpecAgg) *)

\* the data rows of the files handed over: the lines that are not empty
DataLines(csv_files) ==
    UNION {{<<i, j>> : j \in {n \in DOMAIN csv_files[i][2].lines :
                                    csv_files[i][2].lines[n] # <<>>}} :
           i \in DOMAIN csv_files}

\* the cell of data line <<i, j>> in the column named field, "Unknown" when
\* the file has no such column, None when the line is too short
Cell(csv_files, ij, field) ==
    LET f == csv_files[ij[1]][2]
        line == f.lines[ij[2]]
    IN  IF \A n \in DOMAIN f.header : f.header[n] # field THEN "Unknown"
        ELSE LET n == CHOOSE n \in DOMAIN f.header : f.header[n] = field
             IN  IF n <= Len(line) THEN line[n] ELSE None

RECURSIVE SumOver(_, _)
SumOver(f, S) ==
    IF S = {} THEN 0
    ELSE LET x == CHOOSE x \in S : TRUE IN f[x] + SumOver(f, S \ {x})

CountsRows(counts, csv_files, field) ==
    /\ SumOver(counts, DOMAIN counts) = Cardinality(DataLines(csv_files))
    /\ \A g \in DOMAIN counts :
        counts[g] = Cardinality({ij \in DataLines(csv_files) :
                                    Cell(csv_files, ij, field) = g})
    /\ \A ij \in DataLines(csv_files) :
        Cell(csv_files, ij, field) \in DOMAIN counts

\* C9: whenever aggregate_submissions returns a snapshot, its total is the
\* number of data rows of all the files, and the counts by ship type and by
\* region each add up to that total, every group counting the rows that carry
\* its value.
C9_CountsEveryRow ==
    agg_out.raised = "" =>
        /\ agg_out.value.totals.submissions = Cardinality(DataLines(agg_in))
        /\ CountsRows(agg_out.value.byShip, agg_in, "ship_type")
        /\ CountsRows(agg_out.value.byRegion, agg_in, "region")

\* three files with sleep hours 5, 7, 9: three submissions, averages 7.00 and
\* 1.00, two tankers and one bulk carrier, two from Asia and one from Europe
C9_Witness ==
    /\ [i \in DOMAIN agg_in |-> agg_in[i][2]] = <<File5, File7, File9>>
    /\ agg_out.raised = ""
    /\ agg_out.value.totals.submissions = 3
    /\ agg_out.value.averages = [sleepHours |-> Num(700), restViolations |-> Num(100)]
    /\ agg_out.value.byShip = ("Tanker" :> 2) @@ ("Bulk" :> 1)
    /\ agg_out.value.byRegion = ("Asia" :> 2) @@ ("Europe" :> 1)

\* C10: given no file, or only files without a data row, the snapshot has a
\* total of 0, both averages 0 and empty maps, and nothing was divided by zero
\* (the call returns; it does not raise ZeroDivisionError).
C10_ZeroGuard ==
    (agg_out # Pending /\ DataLines(agg_in) = {}) =>
        /\ agg_out.raised = ""
        /\ agg_out.value.totals.submissions = 0
        /\ agg_out.value.averages = [sleepHours |-> Num(0), restViolations |-> Num(0)]
        /\ DOMAIN agg_out.value.byShip = {}
        /\ DOMAIN agg_out.value.byRegion = {}

C10_Witness ==
    /\ [i \in DOMAIN agg_in |-> agg_in[i][2]] = <<FileNoRows, FileBlank>>
    /\ agg_out.raised = ""
    /\ agg_out.value.totals.submissions = 0

----------------------------------------------------------------------------
(* Properties of upload_file under concurrent requests (Spec) *)

WriteCalls == {"PUT submission", "PUT data.json"}
AggregationCalls == {"LIST", "FETCH", "GET data.json", "PUT data.json"}
Aggregating == {"list", "fetch", "data_get", "data_put"}
Ok200 == [status |-> 200, body |-> SuccessBody]

\* C1: a request answered 429 or 400 (rate limit, honeypot, missing file,
\* empty filename, malformed or empty CSV, invalid first row) has issued no
\* PUT to the store, for a submission or for data/data.json.
C1_NoWriteWhenRejected ==
    \A r \in Requests :
        resp[r].status \in {400, 429} => calls[r] \cap WriteCalls = {}

\* one request turned away by the validation of its first row and one by the
\* rate limiter, while nothing was written
C1_Witness ==
    /\ resp[1] = [status |-> 400,
                  body |-> ErrorBody("Sleep hours must be between 0 and 24")]
    /\ resp[2].status = 429
    /\ repo = [p \in {} |-> <<>>]

\* the data rows of the .csv files the repository holds
StoredRows(files) ==
    DataLines([i \in DOMAIN ListedCsv(files) |->
                <<ListedCsv(files)[i].name, files[ListedCsv(files)[i]]>>])

\* C4: once concurrent requests from different addresses have all finished
\* and published, with no store call having failed, data/data.json reflects
\* every stored submission (a snapshot computed from an older listing has not
\* replaced a newer one).
C4_NoLostUpdate ==
    ( /\ faults = 0
      /\ loc[1].ip_address # loc[2].ip_address
      /\ \A r \in Requests : pc[r] = "done" /\ loc[r].updated = "True" )
    => repo[DataJsonPath].totals.submissions = Cardinality(StoredRows(repo))

\* C5: a request whose submission was stored (it entered the aggregation)
\* leaves the aggregation only with 200 {"status": "success"}, however the
\* aggregation ended; a PUT of the submission that ends the request has
\* stored nothing; a response, once given, stays.
C5_SuccessOnceStored ==
    [][\A r \in Requests :
        /\ (pc[r] = "commit_put" /\ pc'[r] = "done") => repo' = repo
        /\ (pc[r] \notin Aggregating /\ pc'[r] \in Aggregating) =>
                /\ pc[r] = "commit_put"
                /\ repo'[loc[r].target_path] = loc[r].content
        /\ (pc[r] \in Aggregating /\ pc'[r] \notin Aggregating) =>
                /\ pc'[r] = "done"
                /\ resp'[r] = Ok200
        /\ pc[r] = "done" => resp'[r] = resp[r]]_vars

\* a request answered 200 although its write of data.json was refused for a
\* version conflict with the other request: no store call failed otherwise
C5_Witness ==
    \E r \in Requests :
        /\ resp[r] = Ok200
        /\ loc[r].updated = "False"
        /\ "PUT data.json" \in calls[r]
        /\ faults = 0

\* C6: when the commit of the submission does not leave the file in the store
\* (an error status, an exception, or a missing setting), the request ends at
\* once with 500 and a generic error body, and has listed nothing and written
\* no data/data.json; without the settings it has called the store not at all.
C6_FailedWriteIs500 ==
    /\ [](\A r \in Requests :
            resp[r].status = 500 =>
                /\ pc[r] = "done"
                /\ calls[r] \cap AggregationCalls = {}
                /\ ~Configured => calls[r] = {})
    /\ [][\A r \in Requests :
            ( /\ pc[r] \in {"commit_get", "commit_put"}
              /\ pc'[r] \notin {pc[r], "commit_put"}
              /\ ~ ( /\ loc[r].target_path \in DOMAIN repo'
                     /\ repo'[loc[r].target_path] = loc[r].content ) )
            => /\ pc'[r] = "done"
               /\ resp'[r].status = 500
               /\ resp'[r].body \in
                    {ErrorBody("Failed to commit file to GitHub."),
                     ErrorBody("Internal server error.")}
               /\ repo' = repo]_vars

\* GitHub answered the PUT of the submission with an error status
C6_Witness ==
    \E r \in Requests :
        /\ resp[r] = [status |-> 500,
                      body |-> ErrorBody("Failed to commit file to GitHub.")]
        /\ calls[r] = {"GET submission", "PUT submission"}
        /\ faults = 1

\* C7: in a recompute whose listing succeeded, every fetch that fails costs
\* at most its own file: the files the snapshot is computed from are all the
\* listed files but those whose fetch failed.  (Stated for a request served
\* alone, so that the listing is that of the repository as it is.)
C7_PartialFailureTolerance ==
    \A r \in Requests :
        ( /\ pc[r] = "data_get"
          /\ \A q \in Requests \ {r} : pc[q] = "start"
          /\ "FETCH" \in calls[r] )
        => Len(loc[r].csv_files) >= Len(ListedCsv(repo)) - faults

\* C8: a request served alone, with no store call failing, always publishes
\* the snapshot, whatever the rows of the stored files hold.
C8_TolerantRecompute ==
    \A r \in Requests :
        ( /\ pc[r] = "done"
          /\ \A q \in Requests \ {r} : pc[q] = "start"
          /\ faults = 0
          /\ "LIST" \in calls[r] )
        => loc[r].updated = "True"

----------------------------------------------------------------------------
(* Properties of the rate limiter, requests served one at a time (SpecSerial) *)

\* C2: a call less than 24 hours after the address's last accepted call is
\* turned away, with a wait within one second of 86400 s minus the elapsed
\* time, and leaves the table as it is; any other call is accepted with wait
\* 0 and stores the time of the call.
C2_RateLimitWindow ==
    [][\A r \in Requests :
        LET i == loc'[r].ip_address
            elapsed == now - rate_limit_store[i]
            remaining == 86400 * TicksPerSecond - elapsed
        IN  /\ (pc[r] = "start" /\ pc'[r] # "start") =>
                IF i \in DOMAIN rate_limit_store
                   /\ elapsed < 24 * 3600 * TicksPerSecond
                THEN /\ pc'[r] = "done"
                     /\ resp'[r].status = 429
                     /\ ~loc'[r].allowed
                     /\ loc'[r].wait_time * TicksPerSecond
                            \in (remaining - TicksPerSecond)..(remaining + TicksPerSecond)
                     /\ rate_limit_store' = rate_limit_store
                ELSE /\ pc'[r] = "record"
                     /\ loc'[r].t = now
                     /\ rate_limit_store' = rate_limit_store
            /\ (pc[r] = "record" /\ pc'[r] # "record") =>
                /\ loc'[r].allowed
                /\ loc'[r].wait_time = 0
                /\ DOMAIN rate_limit_store' = DOMAIN rate_limit_store \cup {i}
                /\ rate_limit_store'[i] = now
                /\ \A j \in DOMAIN rate_limit_store \ {i} :
                        rate_limit_store'[j] = rate_limit_store[j]]_vars

\* a call half a second after the accepted one, turned away with a wait of
\* 86399 s (86399.5 s remain)
C2_Witness ==
    /\ loc[1].allowed /\ loc[1].t = 0
    /\ loc[2].ip_address = loc[1].ip_address
    /\ loc[2].t = 1
    /\ resp[2].status = 429
    /\ loc[2].wait_time = 86399

\* a request has passed the rate-limit check
Passed(r) == pc[r] \notin {"start", "record"} /\ resp[r].status # 429

\* C3: once a request has passed the rate-limit check, its address has an
\* entry no older than the request, at every later step and whatever the
\* request's outcome; a later request from the same address less than 24
\* hours after it is answered 429.
C3_ReserveThenValidate ==
    \A r \in Requests :
        Passed(r) =>
            /\ loc[r].ip_address \in DOMAIN rate_limit_store
            /\ rate_limit_store[loc[r].ip_address] >= loc[r].t
            /\ \A q \in Requests :
                ( /\ q > r
                  /\ pc[q] # "start"
                  /\ loc[q].ip_address = loc[r].ip_address
                  /\ loc[q].t - loc[r].t < required_wait )
                => (pc[q] = "done" /\ resp[q].status = 429)

\* the first request failed with 500; the second, half a second before the
\* 24 hours are over, is answered 429
C3_Witness ==
    /\ resp[1].status = 500
    /\ loc[2].ip_address = loc[1].ip_address
    /\ loc[2].t - loc[1].t = required_wait - 1
    /\ resp[2].status = 429

----------------------------------------------------------------------------
(* validate_submission_data on its own: called once on one row *)

\* a row with field f set to v, and a row read under a header without f
WithField(data, f, v) == [data EXCEPT ![f] = v]
Without(data, f) == [g \in DOMAIN data \ {f} |-> data[g]]

LineMax == <<"24", "50", "Other", "Global", "Yes", "Medium">>

\* rows that pass every check
ValidRows == {DictRow(Header6, Line5), DictRow(Header6, Line9),
              DictRow(Header6, LineMax)}

\* the cells tried in the two number columns and in the four enum columns
NumberCells == DOMAIN Decimal \cup {"nan", "abc", "", None}
valid_members ==
    ("ship_type" :> valid_ship_types) @@ ("region" :> valid_regions)
    @@ ("called_during_rest" :> valid_called)
    @@ ("port_intensity" :> valid_intensity)
EnumCells ==
    ("ship_type" :> valid_ship_types \cup {"tanker", "TANKER", "Submarine", "", None})
    @@ ("region" :> valid_regions \cup {"MiddleEast", "asia", "Antarctica", "", None})
    @@ ("called_during_rest" :> valid_called \cup {"yes", "NO", "Maybe", "", None})
    @@ ("port_intensity" :> valid_intensity \cup {"low", "HIGH", "Extreme", "", None})

\* a valid row with one field replaced by each of its cells, or missing
ValInputs ==
    UNION {
        {WithField(data, f, v) : v \in NumberCells, f \in {"sleep_hours", "rest_violations"}}
        \cup UNION {{WithField(data, f, v) : v \in EnumCells[f]} : f \in DOMAIN EnumCells}
        \cup {Without(data, f) : f \in DOMAIN data}
        : data \in ValidRows}

InitVal ==
    /\ now = 0
    /\ ticks = 0
    /\ faults = 0
    /\ env = [GITHUB_TOKEN |-> TRUE, REPO_FULL_NAME |-> TRUE]
    /\ rate_limit_store = [i \in {} |-> 0]
    /\ repo = [p \in {} |-> <<>>]
    /\ pc = [r \in Requests |-> "done"]
    /\ loc = [r \in Requests |-> NoLoc]
    /\ resp = [r \in Requests |-> NoResponse]
    /\ calls = [r \in Requests |-> {}]
    /\ agg_in = <<>>
    /\ agg_out = Pending
    /\ val_in \in ValInputs
    /\ val_out = Pending
    /\ name_in = <<>>
    /\ path_out = NoPath
    /\ history = <<>>

ValidateCall ==
    /\ val_out = Pending
    /\ val_out' = validate_submission_data(val_in)
    /\ UNCHANGED <<now, ticks, faults, env, rate_limit_store, repo, pc, loc,
                   resp, calls, agg_in, agg_out, val_in, name_in, path_out,
                   history>>

NextVal == ValidateCall

SpecVal == InitVal /\ [][NextVal]_vars

----------------------------------------------------------------------------
(* Properties of validate_submission_data (SpecVal) *)

\* the member sets as the data model of the specification gives them
DocumentedMembers ==
    ("ship_type" :> {"Tanker", "Bulk", "Container", "Gas", "Other"})
    @@ ("region" :> {"Global", "Europe", "MiddleEast", "Asia", "Africa", "Americas"})
    @@ ("called_during_rest" :> {"Yes", "No"})
    @@ ("port_intensity" :> {"Low", "Medium", "High"})

\* the cell reads as a number between lo and hi (in hundredths), bounds included
NumberWithin(v, lo, hi) == v \in DOMAIN Decimal /\ Decimal[v] \in lo..hi

NumbersValid(data) ==
    /\ "sleep_hours" \in DOMAIN data
    /\ NumberWithin(data["sleep_hours"], 0, 2400)
    /\ "rest_violations" \in DOMAIN data
    /\ NumberWithin(data["rest_violations"], 0, 5000)

\* field f holds a value that every reading of the member sets accepts
EnumValid(data, f) ==
    /\ f \in DOMAIN data
    /\ data[f] \in DocumentedMembers[f] \cap valid_members[f]

\* C11: with the numbers and the other three enum fields valid, the row is
\* accepted exactly when the remaining enum field holds one of its documented
\* member strings (region: Global, Europe, MiddleEast, Asia, Africa, Americas);
\* any other string, the empty one and a missing field are rejected.
C11_EnumValidation ==
    val_out # Pending =>
        \A f \in DOMAIN DocumentedMembers :
            ( /\ NumbersValid(val_in)
              /\ \A g \in DOMAIN DocumentedMembers \ {f} : EnumValid(val_in, g) )
            => ( val_out.valid <=>
                    (f \in DOMAIN val_in /\ val_in[f] \in DocumentedMembers[f]) )

\* C12: with the four enum fields valid, the row is accepted exactly when
\* sleep_hours reads as a number in [0, 24] and rest_violations as a number in
\* [0, 50]; a missing cell, text that is no number, a not-a-number and a value
\* out of range are all rejected.
C12_NumericValidation ==
    ( /\ val_out # Pending
      /\ \A f \in DOMAIN DocumentedMembers : EnumValid(val_in, f) )
    => ( val_out.valid <=> NumbersValid(val_in) )

----------------------------------------------------------------------------
(* Properties of concurrent uploads (Spec), continued *)

\* C13: a write of data/data.json that the store refuses for a version
\* conflict (no store call has failed; the sha sent is no longer that of the
\* file, another request having published in between) sends the request back
\* to the listing, to recompute and publish again; it does not end the
\* aggregation.
C13_RetryOnConflict ==
    [][\A r \in Requests :
        ( /\ pc[r] = "data_put"
          /\ pc'[r] # "data_put"
          /\ faults' = 0
          /\ ~PutAccepted(repo, DataJsonPath, loc[r].sha, "ok") )
        => /\ pc'[r] = "list"
           /\ resp'[r] = NoResponse]_vars

\* C15: any two requests admitted by the rate limiter for the same address
\* have admission times at least 24 hours apart.
C15_AtomicAdmission ==
    \A r, q \in Requests :
        ( /\ r # q
          /\ loc[r].allowed /\ loc[q].allowed
          /\ loc[r].ip_address = loc[q].ip_address )
        => \/ loc[r].t - loc[q].t >= required_wait
           \/ loc[q].t - loc[r].t >= required_wait

\* the requests that have been given an address come from different ones
DistinctIdentities ==
    \A r, q \in Requests :
        (r # q /\ pc[r] # "start" /\ pc[q] # "start")
            => loc[r].ip_address # loc[q].ip_address

\* C16: with every request from a different address, no step changes or
\* removes a file stored under submissions/, and the PUT of an accepted upload
\* creates a file that was not there, holding the uploaded content.
C16_ImmutableSubmissions ==
    [][DistinctIdentities =>
        /\ \A p \in DOMAIN repo :
              p.dir = "submissions" => (p \in DOMAIN repo' /\ repo'[p] = repo[p])
        /\ \A r \in Requests :
              (pc[r] = "commit_put" /\ pc'[r] = "list") =>
                  /\ loc[r].target_path \notin DOMAIN repo
                  /\ repo'[loc[r].target_path] = loc[r].content]_vars

----------------------------------------------------------------------------
(* Properties of the rate limiter (SpecSerial), continued *)

\* C18: the wait given to a request that is turned away is the remaining time
\* rounded up to whole seconds: not less than what remains of the 24 hours,
\* less than a second more, and at least 1.
C18_WaitRoundedUp ==
    \A r \in Requests :
        resp[r].status = 429 =>
            LET elapsed == loc[r].t - rate_limit_store[loc[r].ip_address]
                remaining == 86400 * TicksPerSecond - elapsed
            IN  /\ loc[r].wait_time * TicksPerSecond >= remaining
                /\ loc[r].wait_time * TicksPerSecond < remaining + TicksPerSecond
                /\ loc[r].wait_time >= 1

----------------------------------------------------------------------------
(* Properties of an upload served alone (Spec) *)

\* request r is served alone, with the settings present and no store call
\* failing
ServedAlone(r) ==
    /\ \A q \in Requests \ {r} : pc[q] = "start"
    /\ Configured
    /\ faults = 0

\* C17: an upload gets past the checks of the form only if its first data row
\* is valid, whatever its later rows hold, and is then stored as uploaded; and
\* once the upload is answered 200, data/data.json counts every row of every
\* stored file, the later rows of the upload included.
C17_FirstRowOnly ==
    \A r \in Requests :
        ServedAlone(r) =>
            /\ pc[r] \in {"commit_get", "commit_put"} =>
                  validate_submission_data(DictReader(loc[r].content)[1]).valid
            /\ pc[r] \in Aggregating =>
                  /\ loc[r].target_path \in DOMAIN repo
                  /\ repo[loc[r].target_path] \in UploadContents
            /\ resp[r] = Ok200 =>
                  /\ DataJsonPath \in DOMAIN repo
                  /\ repo[DataJsonPath].totals.submissions
                        = Cardinality(StoredRows(repo))

----------------------------------------------------------------------------
(* upload_file lines 330-332 on their own: the path of one upload *)

\* file names of at most MaxName characters
MaxName == 4
NameChars == {".", "/", "a"}
FileNames == UNION {[1..n -> NameChars] : n \in 1..MaxName}

InitPath ==
    /\ now \in {0, 1, TicksPerSecond}
    /\ ticks = 0
    /\ faults = 0
    /\ env = [GITHUB_TOKEN |-> TRUE, REPO_FULL_NAME |-> TRUE]
    /\ rate_limit_store = [i \in {} |-> 0]
    /\ repo = [p \in {} |-> <<>>]
    /\ pc = [r \in Requests |-> "done"]
    /\ loc = [r \in Requests |-> NoLoc]
    /\ resp = [r \in Requests |-> NoResponse]
    /\ calls = [r \in Requests |-> {}]
    /\ agg_in = <<>>
    /\ agg_out = Pending
    /\ val_in = <<>>
    /\ val_out = Pending
    /\ name_in \in FileNames
    /\ path_out = NoPath
    /\ history = <<>>

PathCall ==
    /\ path_out = NoPath
    /\ path_out' = SubmissionPath(now, ReplaceDotDot(name_in))
    /\ UNCHANGED <<now, ticks, faults, env, rate_limit_store, repo, pc, loc,
                   resp, calls, agg_in, agg_out, val_in, val_out, name_in,
                   history>>

NextPath == PathCall

SpecPath == InitPath /\ [][NextPath]_vars

----------------------------------------------------------------------------
(* Properties of the path of a submission (SpecPath) *)

HasDotDot(s) == \E i \in 1..(Len(s) - 1) : s[i] = "." /\ s[i + 1] = "."

\* the segments of a name: what stands between its slashes
RECURSIVE Segments(_)
Segments(s) ==
    IF \A i \in DOMAIN s : s[i] # "/" THEN {s}
    ELSE LET i == CHOOSE i \in DOMAIN s :
                    s[i] = "/" /\ \A j \in 1..(i - 1) : s[j] # "/"
         IN  {SubSeq(s, 1, i - 1)} \cup Segments(SubSeq(s, i + 1, Len(s)))

\* C19: the path computed for an upload lies in submissions/, begins with the
\* timestamp of the upload (whole seconds) and an underscore, and the file
\* name that follows has no two consecutive dots, so that no segment of the
\* path is the parent directory; a name without two consecutive dots is kept
\* as it is.
C19_PathStaysInside ==
    path_out # NoPath =>
        /\ path_out.dir = "submissions"
        /\ path_out.ts * TicksPerSecond \in (now - TicksPerSecond + 1)..now
        /\ ~HasDotDot(path_out.name)
        /\ <<".", ".">> \notin Segments(path_out.name)
        /\ Len(path_out.name) <= Len(name_in)
        /\ ~HasDotDot(name_in) => path_out.name = name_in

\* the name "../a" becomes "_/a"
C19_Witness ==
    /\ name_in = <<".", ".", "/", "a">>
    /\ path_out.dir = "submissions"
    /\ path_out.name = <<"_", "/", "a">>

----------------------------------------------------------------------------
(* Properties of a recompute whose reads fail (Spec) *)

\* the snapshot of an empty history
ZeroSnapshot(t) ==
    [totals |-> [submissions |-> 0],
     averages |-> [sleepHours |-> Num(0), restViolations |-> Num(0)],
     byShip |-> EmptyMap, byRegion |-> EmptyMap, updatedAt |-> t]

\* C20: a listing that fails (error status, exception, missing setting) leaves
\* the recompute with no file and the all-zero snapshot, which it goes on to
\* publish; a fetch that fails leaves it with no file at all or without that
\* file; what is published replaces data/data.json whatever it held.  For a
\* request served alone, the snapshot about to be published has the total of
\* the stored rows only if every listed file was read.
C20_FailedListingPublishesZeros ==
    /\ [](\A r \in Requests :
            ( /\ pc[r] \in {"data_get", "data_put"}
              /\ \A q \in Requests \ {r} : pc[q] = "start"
              /\ loc[r].aggregated_data.totals.submissions
                    = Cardinality(StoredRows(repo)) )
            => Len(loc[r].csv_files) = Len(ListedCsv(repo)))
    /\ [][\A r \in Requests :
            /\ ( /\ pc[r] = "list" /\ pc'[r] # "list"
                 /\ (faults' # faults \/ ~Configured) )
               => /\ pc'[r] = "data_get"
                  /\ loc'[r].csv_files = <<>>
                  /\ loc'[r].aggregated_data = ZeroSnapshot(now)
            /\ ( /\ pc[r] = "fetch" /\ pc'[r] = "data_get"
                 /\ faults' # faults )
               => /\ loc'[r].csv_files \in {<<>>, loc[r].csv_files}
                  /\ loc'[r].csv_files = <<>> =>
                        loc'[r].aggregated_data = ZeroSnapshot(now)
            /\ (pc[r] = "data_put" /\ pc'[r] = "done" /\ repo' # repo)
               => repo' = [p \in DOMAIN repo \cup {DataJsonPath} |->
                            IF p = DataJsonPath THEN loc[r].aggregated_data
                            ELSE repo[p]]]_vars

\* the repository held one submission and a snapshot counting it; an upload
\* was stored, the listing failed, and data.json now counts no submission
\* while two are stored
C20_Witness ==
    /\ OldPath \in DOMAIN repo
    /\ Cardinality(StoredRows(repo)) >= 2
    /\ repo[DataJsonPath] = ZeroSnapshot(0)
    /\ \E r \in Requests : resp[r] = Ok200 /\ loc[r].updated = "True"
    /\ faults = 1

----------------------------------------------------------------------------
(* update_aggregated_data on its own: run again and again by request 1 over *)
(* a repository whose submissions nobody changes                           *)

\* update_aggregated_data is run at most MaxRuns times
MaxRuns == 2

OlderPath == [dir |-> "submissions", ts |-> -3, name |-> <<"p">> \o dot_csv]
HistoryContents == {File5, File59, FileLegacy, File7Abc}

\* a snapshot published earlier that has nothing to do with the stored files
StaleSnapshot ==
    aggregate_submissions(<< <<OldPath.name, File59>>, <<OldPath.name, File59>>,
                             <<OldPath.name, File9>> >>, -1).value

\* the repositories a recompute starts from: no, one or two stored
\* submissions; data.json absent or stale
Histories ==
    LET stored == {[p \in {} |-> <<>>]}
                  \cup {(OldPath :> c) : c \in HistoryContents}
                  \cup {(OlderPath :> c) @@ (OldPath :> d) :
                            c \in HistoryContents, d \in HistoryContents}
    IN  stored \cup {files @@ (DataJsonPath :> StaleSnapshot) : files \in stored}

\* what a run left: what update_aggregated_data returned, and data.json
Left(files, updated) ==
    [updated |-> updated,
     json |-> IF DataJsonPath \in DOMAIN files THEN files[DataJsonPath]
              ELSE [absent |-> TRUE]]

InitRecompute ==
    /\ now = 0
    /\ ticks = 0
    /\ faults = 0
    /\ env \in [GITHUB_TOKEN : BOOLEAN, REPO_FULL_NAME : BOOLEAN]
    /\ rate_limit_store = [i \in {} |-> 0]
    /\ repo \in Histories
    /\ pc = [r \in Requests |-> IF r = 1 THEN "list" ELSE "done"]
    /\ loc = [r \in Requests |-> NoLoc]
    /\ resp = [r \in Requests |-> NoResponse]
    /\ calls = [r \in Requests |-> {}]
    /\ agg_in = <<>>
    /\ agg_out = Pending
    /\ val_in = <<>>
    /\ val_out = Pending
    /\ name_in = <<>>
    /\ path_out = NoPath
    /\ history = <<>>

\* the run is over; some time later update_aggregated_data is called again
RunAgain ==
    /\ pc[1] = "done"
    /\ Len(history) < MaxRuns - 1
    /\ history' = Append(history, Left(repo, loc[1].updated))
    /\ pc' = [pc EXCEPT ![1] = "list"]
    /\ loc' = [loc EXCEPT ![1] = NoLoc]
    /\ resp' = [resp EXCEPT ![1] = NoResponse]
    /\ calls' = [calls EXCEPT ![1] = {}]
    /\ now' = now + 1
    /\ ticks' = ticks + 1
    /\ UNCHANGED <<faults, env, rate_limit_store, repo, agg_in, agg_out,
                   val_in, val_out, name_in, path_out>>

NextRecompute ==
    \/ ListSubmissions(1)
    \/ FetchFile(1)
    \/ DataGet(1)
    \/ DataPut(1)
    \/ RunAgain

SpecRecompute == InitRecompute /\ [][NextRecompute]_vars

----------------------------------------------------------------------------
(* Properties of repeated recomputes (SpecRecompute) *)

SameButUpdatedAt(a, b) == [a EXCEPT !.updatedAt = 0] = [b EXCEPT !.updatedAt = 0]

\* C14: when update_aggregated_data has run again over unchanged submissions,
\* no store call having failed, it returns what the run before returned, and
\* if both published, the two snapshots are equal in every field but
\* updatedAt, the second carrying the time of the second run and the total of
\* the stored rows, whatever data.json held before the first run.
C14_RecomputeIdempotent ==
    (pc[1] = "done" /\ history # <<>> /\ faults = 0) =>
        LET before == history[Len(history)]
        IN  /\ loc[1].updated = before.updated
            /\ loc[1].updated = "True" =>
                /\ SameButUpdatedAt(before.json, repo[DataJsonPath])
                /\ repo[DataJsonPath].updatedAt = now
                /\ repo[DataJsonPath].totals.submissions
                        = Cardinality(StoredRows(repo))

\* two stored files of one and two rows, and a stale data.json counting five:
\* both runs publish a total of three, the second a tick after the first
C14_Witness ==
    /\ pc[1] = "done"
    /\ faults = 0
    /\ {OlderPath, OldPath, DataJsonPath} \subseteq DOMAIN repo
    /\ repo[OlderPath] = File5 /\ repo[OldPath] = File59
    /\ Len(history) = 1
    /\ history[1].updated = "True"
    /\ history[1].json.totals.submissions = 3
    /\ history[1].json.updatedAt = now - 1
    /\ repo[DataJsonPath].totals.submissions = 3
    /\ repo[DataJsonPath].updatedAt = now

====
